---------------------------- MODULE Spec2Model ----------------------------
(***************************************************************************)
(* A model of src/js/shared/jcr.js: the mapping of page paths and asset    *)
(* URLs into the JCR namespace, the resolution of asset references, the    *)
(* module-level cache (jcrPages, jcrAssets) and the assembly of a JCR      *)
(* package by createJcrPackage.                                            *)
(*                                                                         *)
(* Text.  A JavaScript string is modelled as a sequence of symbols.  A     *)
(* symbol is one character ("/", ".", "?", "&", "=", ":", "_") or an       *)
(* indivisible word ("content", "png", ...), i.e. a letter of a larger     *)
(* alphabet.  startsWith, split, join, replace, substring and lastIndexOf  *)
(* are computed on these sequences as the JavaScript methods compute them  *)
(* on characters.  undefined is the one-symbol text Undefined.             *)
(***************************************************************************)
EXTENDS Naturals, Sequences, FiniteSets


---------------------------------------------------------------------------
(* String primitives                                                       *)

Undefined == <<"#undefined">>

\* s.startsWith(p)
StartsWith(s, p) == Len(s) >= Len(p) /\ SubSeq(s, 1, Len(p)) = p

\* The 1-based positions at which p occurs in s.
Occurrences(s, p) ==
    {k \in 1..Len(s) : k + Len(p) - 1 <= Len(s) /\ SubSeq(s, k, k + Len(p) - 1) = p}

Min(S) == CHOOSE x \in S : \A y \in S : x <= y

Max(S) == CHOOSE x \in S : \A y \in S : x >= y

\* The least element of S, or d when S is empty.
MinOr(S, d) == IF S = {} THEN d ELSE Min(S)

\* The greatest element of S, or d when S is empty.
MaxOr(S, d) == IF S = {} THEN d ELSE Max(S)

\* s.indexOf(p) + 1 for a non-empty p: 0 when p does not occur.
IndexOf(s, p) == MinOr(Occurrences(s, p), 0)

\* s.lastIndexOf(p) + 1 for a non-empty p: 0 when p does not occur.
LastIndexOf(s, p) == MaxOr(Occurrences(s, p), 0)

\* s.includes(p)
Includes(s, p) == p = <<>> \/ Occurrences(s, p) # {}

\* s with the occurrence of p at position k (0: none) replaced by r.
ReplaceAt(s, p, r, k) ==
    IF k = 0 THEN s ELSE SubSeq(s, 1, k - 1) \o r \o SubSeq(s, k + Len(p), Len(s))

\* s.replace(p, r) with a string pattern: only the first occurrence is replaced,
\* and an empty pattern matches at the start.
ReplaceFirst(s, p, r) == IF p = <<>> THEN r \o s ELSE ReplaceAt(s, p, r, IndexOf(s, p))

\* s.substring(k): the text from the 0-based position k on.
SubstringFrom(s, k) == SubSeq(s, k + 1, Len(s))

\* The position of the j-th of the separators seps of s; 0 before the first
\* and Len(s) + 1 after the last.
SepAt(s, seps, j) ==
    IF j = 0 THEN 0
    ELSE IF j = Cardinality(seps) + 1 THEN Len(s) + 1
    ELSE CHOOSE k \in seps : Cardinality({q \in seps : q <= k}) = j

\* The texts between the separators of s: n separators give n + 1 texts.
SplitAt(s, seps) ==
    [j \in 1..(Cardinality(seps) + 1) |->
        SubSeq(s, SepAt(s, seps, j - 1) + 1, SepAt(s, seps, j) - 1)]

\* s.split(c) for a one-symbol separator c.
Split(s, c) == SplitAt(s, {k \in 1..Len(s) : s[k] = c})

\* parts.join(sep)
Join(parts, sep) ==
    LET joined[k \in 0..Len(parts)] ==
            IF k = 0 THEN <<>>
            ELSE IF k = 1 THEN parts[1]
            ELSE joined[k - 1] \o sep \o parts[k]
    IN  joined[Len(parts)]

\* parts.pop(): the last element (the array itself is not used afterwards).
Pop(parts) == parts[Len(parts)]

\* tokens.splice(start, 1, item) with a 0-based start: the element at start is
\* replaced; past the end, item is appended.
Splice1(tokens, start, item) ==
    IF start + 1 <= Len(tokens)
    THEN SubSeq(tokens, 1, start) \o <<item>> \o SubSeq(tokens, start + 2, Len(tokens))
    ELSE tokens \o <<item>>

---------------------------------------------------------------------------
(* new URL(href): the WHATWG parse of an absolute http(s) URL without      *)
(* port, credentials, fragment, percent-escapes or dot segments.  A parsed *)
(* URL is the record of what the program reads of it: origin, pathname and *)
(* the query without its "?".                                              *)

SchemeSep == <<":", "/", "/">>

\* The path and query of a URL from the text after its host: q is the
\* position of "?" (0: none); an empty path of an http(s) URL is "/".
PathAndQuery(origin, tail, q) ==
    [origin |-> origin,
     pathname |-> IF q = 1 \/ tail = <<>> THEN <<"/">>
                  ELSE IF q = 0 THEN tail ELSE SubSeq(tail, 1, q - 1),
     query |-> IF q = 0 THEN <<>> ELSE SubSeq(tail, q + 1, Len(tail))]

\* The URL whose scheme and "://" are `scheme` and whose host ends before
\* position hostEnd of `rest`.
HostAndTail(scheme, rest, hostEnd) ==
    PathAndQuery(scheme \o SubSeq(rest, 1, hostEnd - 1),
                 SubSeq(rest, hostEnd, Len(rest)),
                 IndexOf(SubSeq(rest, hostEnd, Len(rest)), <<"?">>))

\* The host ends at the first "/" or "?" after "://".
SchemeAndRest(scheme, rest) ==
    HostAndTail(scheme, rest,
                MinOr({k \in 1..Len(rest) : rest[k] \in {"/", "?"}}, Len(rest) + 1))

\* The URL text cut after the "://" that starts at position sep.
CutAtScheme(href, sep) ==
    SchemeAndRest(SubSeq(href, 1, sep + Len(SchemeSep) - 1),
                  SubSeq(href, sep + Len(SchemeSep), Len(href)))

\* new URL(href)
ParseUrl(href) == CutAtScheme(href, IndexOf(href, SchemeSep))

\* url.href of a parsed URL.
Href(url) ==
    url.origin \o url.pathname \o (IF url.query = <<>> THEN <<>> ELSE <<"?">> \o url.query)

\* name and value of one piece of a query, split at its first "=" (at eq).
NameValue(piece, eq) ==
    IF eq = 0 THEN <<piece, <<>>>>
    ELSE <<SubSeq(piece, 1, eq - 1), SubSeq(piece, eq + 1, Len(piece))>>

\* The name and value of each piece.
NameValues(pieces) ==
    [k \in 1..Len(pieces) |-> NameValue(pieces[k], IndexOf(pieces[k], <<"=">>))]

\* url.searchParams as a sequence of <<name, value>>: the query is split at "&",
\* empty pieces are skipped, each piece is split at its first "=".
SearchParams(query) == NameValues(SelectSeq(Split(query, "&"), LAMBDA piece : piece # <<>>))

\* params.get(key): the value of the first parameter named key.
ParamsGet(params, key) ==
    params[Min({k \in 1..Len(params) : params[k][1] = key})][2]

---------------------------------------------------------------------------
(* Path Mapper (jcr.js lines 68-110)                                       *)

ContentPrefix == <<"/", "content", "/">>

DamPrefix == <<"/", "content", "/", "dam", "/">>

\* getSiteName: CUSTOM_SITE_NAME is undefined, so the site name is the token at
\* index 2 of the project URL's pathname split at "/".  Project URLs are of the
\* form https://host/org/repo, for which that token exists.
getSiteName(projectUrl) == Split(ParseUrl(projectUrl).pathname, "/")[3]

\* The branches of getJcrPagePath for a site name.
PagePath(path, siteName) ==
    IF StartsWith(path, ContentPrefix)
    THEN Join(Splice1(Split(path, "/"), 2, siteName), <<"/">>)
    ELSE <<"/", "content", "/">> \o siteName \o path

\* getJcrPagePath with a plausible slip: a path under /content/ keeps the
\* source's own site token.
getJcrPagePath_KeepToken(path, projectUrl) ==
    IF StartsWith(path, ContentPrefix) THEN path
    ELSE <<"/", "content", "/">> \o getSiteName(projectUrl) \o path

\* getJcrPagePath(path, projectUrl)
getJcrPagePath(path, projectUrl) == PagePath(path, getSiteName(projectUrl))

\* extension in getJcrAssetPath: "." and the text after the last "." of the
\* pathname, or the empty text.
AssetExtension(pathname) ==
    IF Includes(pathname, <<".">>) THEN <<".">> \o Pop(Split(pathname, ".")) ELSE <<>>

\* Array.from(params.keys()).map((key) => `_${key}${params.get(key)}`).join('')
FoldParams(params) ==
    LET folded[k \in 0..Len(params)] ==
            IF k = 0 THEN <<>>
            ELSE folded[k - 1] \o <<"_">> \o params[k][1] \o ParamsGet(params, params[k][1])
    IN  folded[Len(params)]

QuerySuffix(query) == FoldParams(SearchParams(query))

\* The branches of getJcrAssetPath: path is the pathname without its
\* extension, suffix what the query contributes.
AssetPathFrom(path, extension, suffix, siteName) ==
    IF StartsWith(path, DamPrefix)
    THEN Join(Splice1(Split(path, "/"), 3, siteName), <<"/">>) \o extension
    ELSE DamPrefix \o siteName \o path \o suffix \o extension

\* path is the pathname with the first occurrence of the extension removed.
AssetPathWith(pathname, extension, suffix, siteName) ==
    AssetPathFrom(ReplaceFirst(pathname, extension, <<>>), extension, suffix, siteName)

\* getJcrAssetPath for a parsed URL with a plausible slip: the query
\* parameters are dropped.
getJcrAssetPath_NoQuery(assetUrl, projectUrl) ==
    AssetPathWith(assetUrl.pathname, AssetExtension(assetUrl.pathname), <<>>,
                  getSiteName(projectUrl))

\* getJcrAssetPath(assetUrl, projectUrl) for a parsed URL.
getJcrAssetPath(assetUrl, projectUrl) ==
    AssetPathWith(assetUrl.pathname, AssetExtension(assetUrl.pathname),
                  QuerySuffix(assetUrl.query), getSiteName(projectUrl))

---------------------------------------------------------------------------
(* Asset Resolver (jcr.js lines 112-211)                                   *)

\* getMimeTypeFromExtension: the lookup table; undefined for any other text.
getMimeTypeFromExtension(extension) ==
    CASE extension = <<"html">> -> "text/html"
      [] extension = <<"css">> -> "text/css"
      [] extension = <<"js">> -> "application/javascript"
      [] extension = <<"png">> -> "image/png"
      [] extension = <<"jpg">> -> "image/jpeg"
      [] extension = <<"gif">> -> "image/gif"
      [] OTHER -> "undefined"

\* ADD_ASSET_TO_PACKAGE = ADD_ASSET_TO_PACKAGE_DEFAULT = true
ADD_ASSET_TO_PACKAGE == TRUE

\* The value null.
Null == [null |-> TRUE]

\* An asset's url when getAsset leaves it undefined.
NoUrl == [undefined |-> TRUE]

\* The object getAsset returns; blob and mimeType are the properties that
\* fetchAssetData sets later ("undefined" until then).
Asset(fileReference, processedFileRef, jcrPath, url, add) ==
    [fileReference |-> fileReference, processedFileRef |-> processedFileRef,
     jcrPath |-> jcrPath, url |-> url, add |-> add,
     blob |-> "undefined", mimeType |-> "undefined"]

\* Which branch of getAsset a reference takes (first match wins).
RefKind(fileReference) ==
    IF fileReference = <<>> THEN "empty"
    ELSE IF StartsWith(fileReference, <<"http">>) THEN "external"
    ELSE IF StartsWith(fileReference, DamPrefix) THEN "dam"
    ELSE IF StartsWith(fileReference, <<"/">>) THEN "absolute"
    ELSE IF StartsWith(fileReference, <<".", "/">>) THEN "relative"
    ELSE "other"

\* pagePath.substring(0, pagePath.lastIndexOf('/'))
ParentPath(pagePath) == SubSeq(pagePath, 1, LastIndexOf(pagePath, <<"/">>) - 1)

\* The text handed to new URL in the branch `kind`, page being the parsed
\* page URL: the reference itself; the page's origin and the reference; or the
\* origin, the page's parent path and the reference without its leading ".".
RefUrlText(fileReference, kind, page) ==
    CASE kind = "external" -> fileReference
      [] kind \in {"dam", "absolute"} -> page.origin \o fileReference
      [] kind = "relative" ->
            page.origin \o ParentPath(page.pathname) \o SubstringFrom(fileReference, 1)

\* The test of line 172 with a plausible slip: any absolute reference is resolved.
SameOrigin_Any(url, page) == TRUE

\* Whether an absolute reference is resolved: its origin is the page's.
SameOrigin(url, page) == url.origin = page.origin

\* The asset of a reference that has a jcrPath.
Resolved(fileReference, jcrPath, url, add) ==
    Asset(fileReference, jcrPath, jcrPath, url, add)

\* The asset of the branches of getAsset that build a URL.
AssetAt(fileReference, kind, url, page, projectUrl) ==
    IF kind = "external" /\ ~SameOrigin(url, page)
    THEN Asset(fileReference, fileReference, Undefined, url, FALSE)
    ELSE Resolved(fileReference, getJcrAssetPath(url, projectUrl), url,
                  IF kind = "dam" THEN ADD_ASSET_TO_PACKAGE ELSE TRUE)

\* getAsset once the branch and the parsed page URL are known.
AssetOf(fileReference, kind, page, projectUrl) ==
    CASE kind = "empty" -> Null
      [] kind = "other" -> Asset(fileReference, fileReference, Undefined, NoUrl, FALSE)
      [] OTHER -> AssetAt(fileReference, kind,
                          ParseUrl(RefUrlText(fileReference, kind, page)), page, projectUrl)

\* getAsset(fileReference, pageUrl, projectUrl)
getAsset(fileReference, pageUrl, projectUrl) ==
    AssetOf(fileReference, RefKind(fileReference), ParseUrl(pageUrl), projectUrl)

\* What a fetch of asset bytes can come to: a response with a content-type
\* header, a non-success status, a rejected fetch.
FetchOutcomes == {"ok", "status", "reject"}

\* The content-type a successful response carries.
ResponseType == "image/webp"

\* `mimeType || getMimeTypeFromExtension(asset.url.pathname.split('.').pop())`
MimeOrExtension(mimeType, url) ==
    IF mimeType \in {"null", "undefined", ""}
    THEN getMimeTypeFromExtension(Pop(Split(url.pathname, ".")))
    ELSE mimeType

\* What the promise chain of lines 141-153 resolves to: the response's blob and
\* content-type, nulls for a non-success status, and undefined when the fetch
\* is rejected (the .catch handler returns nothing).
FetchResult(outcome) ==
    CASE outcome = "ok" -> [blob |-> "Blob", mimeType |-> ResponseType]
      [] outcome = "status" -> [blob |-> "null", mimeType |-> "null"]
      [] OTHER -> [undefined |-> TRUE]

\* fetchAssetData(asset) when the fetch comes to `outcome`: raised tells whether
\* the call throws, asset is the object afterwards.  Destructuring
\* { blob, mimeType } from undefined throws a TypeError before anything is
\* assigned.
fetchAssetData(asset, outcome) ==
    IF asset.url = NoUrl THEN [raised |-> FALSE, asset |-> asset]
    ELSE IF FetchResult(outcome) = [undefined |-> TRUE]
    THEN [raised |-> TRUE, asset |-> asset]
    ELSE [raised |-> FALSE,
          asset |-> [asset EXCEPT !.blob = FetchResult(outcome).blob,
                                  !.mimeType = MimeOrExtension(FetchResult(outcome).mimeType,
                                                               asset.url)]]

\* The exception of reading a property of null.
TypeErrorNullAsset == <<"#TypeError: asset is null">>

\* asset.processedFileRef (line 210): a TypeError when the asset is null.
ProcessedFileRefOf(asset) == IF asset = Null THEN TypeErrorNullAsset ELSE asset.processedFileRef

\* getProcessedFileRef(fileReference, pageUrl, projectUrl)
getProcessedFileRef(fileReference, pageUrl, projectUrl) ==
    ProcessedFileRefOf(getAsset(fileReference, pageUrl, projectUrl))

---------------------------------------------------------------------------
(* Page Transformer (jcr.js lines 273-334)                                 *)
(* A page's markup (page.data) is the record                               *)
(*   [content, props, children, refs]:                                     *)
(* whether it has a jcr:content node, that node's attribute names and      *)
(* child tag names, and the fileReference values of the nodes that carry   *)
(* the attribute, in document order.                                       *)

getPageProperties(xml) == IF xml.content THEN xml.props ELSE <<>>

getPageContentChildren(xml) == IF xml.content THEN xml.children ELSE <<>>

\* The node after line 292, with the mime type of lines 287-289 when
\* fetchAssetData was awaited and left one.
ImageNode(processedFileRef, fetches, mimeType) ==
    [fileReference |-> processedFileRef,
     fileReferenceMimeType |->
        IF fetches /\ mimeType \notin {"null", "undefined", ""} THEN mimeType ELSE "absent"]

\* Lines 281-292 for a reference whose asset is not null: fetches tells
\* whether fetchAssetData is awaited, fetched is what it comes to.
ImageResult(processedFileRef, fetches, fetched) ==
    IF fetches /\ fetched.raised
    THEN [raised |-> TRUE, fetches |-> TRUE, error |-> "TypeError: fetch result is undefined"]
    ELSE [raised |-> FALSE, fetches |-> fetches,
          node |-> ImageNode(processedFileRef, fetches, fetched.asset.mimeType)]

\* Lines 280-292 given the result of getProcessedFileRef and the asset of
\* line 283.
ImageStep(fileReference, processedFileRef, asset, outcome) ==
    IF processedFileRef = TypeErrorNullAsset
    THEN [raised |-> TRUE, fetches |-> FALSE, error |-> "TypeError: asset is null"]
    ELSE ImageResult(processedFileRef,
                     StartsWith(fileReference, <<"http">>) /\ ~asset.add,
                     fetchAssetData(asset, outcome))

\* One iteration of the loop of getProcessedJcr (lines 278-292) for a node
\* whose attribute is fileReference, a fetch (if one is made) coming to
\* outcome: raised and the exception, or the node's attributes afterwards and
\* whether fetchAssetData was awaited.
ProcessImage(fileReference, pageUrl, projectUrl, outcome) ==
    ImageStep(fileReference, getProcessedFileRef(fileReference, pageUrl, projectUrl),
              getAsset(fileReference, pageUrl, projectUrl), outcome)

\* The serialised document getProcessedJcr returns once every node is done.
ProcessedXml(xml, nodes) ==
    [content |-> xml.content, props |-> xml.props, children |-> xml.children,
     nodes |-> nodes]

ContentXmlPath(jcrPath) == <<"jcr_root">> \o jcrPath \o <<"/", ".content.xml">>

\* The object the map callback of getJcrPages builds for a page (lines 322-331).
JcrPage(page, processedXml, projectUrl) ==
    LET jcrPath == getJcrPagePath(page.path, projectUrl)
    IN  [path |-> page.path, sourceXml |-> page.data,
         pageProperties |-> getPageProperties(page.data),
         pageContentChildren |-> getPageContentChildren(page.data),
         processedXml |-> processedXml,
         jcrPath |-> jcrPath,
         contentXmlPath |-> ContentXmlPath(jcrPath),
         url |-> page.url]

---------------------------------------------------------------------------
(* Asset collection, ancestors, filter (jcr.js lines 236-243, 336-421)     *)

\* jcrAssets.find((a) => a.jcrPath === asset.jcrPath) finds an entry.
HasJcrPath(assets, jcrPath) == \E k \in 1..Len(assets) : assets[k].jcrPath = jcrPath

\* The guard of line 349 with a plausible slip: no duplicate check.
ShouldPush_NoDedup(assets, asset) == asset # Null /\ asset.add

\* The guard of line 349: asset && asset.add && no entry has its jcrPath.
ShouldPush(assets, asset) ==
    asset # Null /\ asset.add /\ ~HasJcrPath(assets, asset.jcrPath)

\* The inner loop of getJcrAssets (lines 344-352) over the nodes of one page.
ScanImages(assets, refs, pageUrl, projectUrl) ==
    LET scanned[k \in 0..Len(refs)] ==
            IF k = 0 THEN assets
            ELSE LET asset == getAsset(refs[k], pageUrl, projectUrl)
                 IN  IF ShouldPush(scanned[k - 1], asset)
                     THEN Append(scanned[k - 1], asset)
                     ELSE scanned[k - 1]
    IN  scanned[Len(refs)]

\* The outer loop of getJcrAssets (lines 339-353) over the cached pages.
ScanPages(assets, jcrPageItems, projectUrl) ==
    LET scanned[k \in 0..Len(jcrPageItems)] ==
            IF k = 0 THEN assets
            ELSE ScanImages(scanned[k - 1], jcrPageItems[k].sourceXml.refs,
                            jcrPageItems[k].url, projectUrl)
    IN  scanned[Len(jcrPageItems)]

\* The null that getResourcePaths maps a resource without path to.
NullPath == <<"#null">>

\* getResourcePaths(resources, isAsset): the jcrPath of every resource that has
\* one (and, for assets, is to be added); the others map to null and are
\* filtered out.
getResourcePaths(resources, isAsset) ==
    LET Path(resource) ==
            IF \/ isAsset /\ resource.add /\ resource.jcrPath # Undefined
               \/ ~isAsset /\ resource.jcrPath # Undefined
            THEN resource.jcrPath ELSE NullPath
    IN  SelectSeq([k \in 1..Len(resources) |-> Path(resources[k])],
                  LAMBDA path : path # NullPath)

\* jcrPaths.includes(path)
SeqIncludes(seq, x) == \E k \in 1..Len(seq) : seq[k] = x

\* The synthetic page of lines 390-394; its markup is the fixed ancestorXml.
AncestorPage(ancestorPath) ==
    [jcrPath |-> ancestorPath, contentXmlPath |-> ContentXmlPath(ancestorPath),
     processedXml |-> [content |-> TRUE, props |-> <<>>, children |-> <<>>,
                       nodes |-> <<>>]]

\* Whether line 389 lets the ancestor be pushed.
ShouldEmit(jcrPaths, ancestorPath) == ~SeqIncludes(jcrPaths, ancestorPath)

\* The objects pushed for the ancestor paths that pass line 389.
AncestorPages(ancestorPaths) ==
    [k \in 1..Len(ancestorPaths) |-> AncestorPage(ancestorPaths[k])]

\* The body of the forEach of lines 382-397 for one page path: ancestorPath[k]
\* is the path after the iteration with i = k (0-based), "/content" before the
\* loop; the loop runs for i = 2 .. pathSegments.length - 2.
AncestorsOf(jcrPaths, pagePath) ==
    LET pathSegments == Split(pagePath, "/")
        last == Len(pathSegments) - 2
        ancestorPath[k \in 1..Max({1, last})] ==
            IF k = 1 THEN <<"/", "content">>
            ELSE ancestorPath[k - 1] \o <<"/">> \o pathSegments[k + 1]
        visited == [k \in 1..(IF last >= 2 THEN last - 1 ELSE 0) |-> ancestorPath[k + 1]]
    IN  AncestorPages(SelectSeq(visited, LAMBDA path : ShouldEmit(jcrPaths, path)))

\* getEmptyAncestorPages(pages): the ancestors of each page in turn.
getEmptyAncestorPages(jcrPageItems) ==
    LET jcrPaths == [k \in 1..Len(jcrPageItems) |-> jcrPageItems[k].jcrPath]
        emptyAncestors[k \in 0..Len(jcrPaths)] ==
            IF k = 0 THEN <<>>
            ELSE emptyAncestors[k - 1] \o AncestorsOf(jcrPaths, jcrPaths[k])
    IN  emptyAncestors[Len(jcrPaths)]

JcrContent(jcrPath) == jcrPath \o <<"/", "jcr:content">>

\* The filter elements getFilterXml writes for one page (lines 406-408): the
\* jcr:content filter with its property includes, then one filter per child.
PageFilters(page) ==
    LET content == JcrContent(page.jcrPath)
    IN  <<[root |-> content,
           includes |-> [k \in 1..Len(page.pageProperties) |->
                            content \o <<"/", page.pageProperties[k]>>]]>>
        \o [k \in 1..Len(page.pageContentChildren) |->
                [root |-> content \o <<"/", page.pageContentChildren[k]>>,
                 includes |-> <<>>]]

\* pageFilters (line 405): the reduce over the cached pages.
AllPageFilters(jcrPageItems) ==
    LET acc[k \in 0..Len(jcrPageItems)] ==
            IF k = 0 THEN <<>> ELSE acc[k - 1] \o PageFilters(jcrPageItems[k])
    IN  acc[Len(jcrPageItems)]

\* The filter elements for the asset paths (line 412).
AssetFilters(jcrAssetPaths) ==
    [k \in 1..Len(jcrAssetPaths) |-> [root |-> jcrAssetPaths[k], includes |-> <<>>]]

\* The document with a plausible slip: the asset filters are left out.
FilterXml_PagesOnly(jcrPageItems, jcrAssetPaths) == AllPageFilters(jcrPageItems)

\* The workspaceFilter document of lines 414-418 as the sequence of its
\* <filter> elements.
FilterXml(jcrPageItems, jcrAssetPaths) ==
    AllPageFilters(jcrPageItems) \o AssetFilters(jcrAssetPaths)

\* getPackageName(pages, projectUrl)
getPackageName(pgs, projectUrl) ==
    IF Len(pgs) = 1
    THEN getSiteName(projectUrl) \o <<"_">> \o Pop(Split(pgs[1].path, "/"))
    ELSE getSiteName(projectUrl)

---------------------------------------------------------------------------
(* Inputs                                                                  *)

\* The most pages one call is given, the most fileReference nodes the pages of
\* one call hold together, and the most calls of one behaviour.
MaxPages == 2

MaxRefs == 2

MaxCalls == 2

Https(host) == <<"http", "s", ":", "/", "/", host>>

\* The project URL https://github.com/org/repo: the site name is "repo".
ProjectUrl == <<"http", "s", ":", "/", "/", "github", ".", "com", "/", "org", "/", "repo">>

\* Where pages come from: a source path, the page's URL and its jcr:content.
\*   /a/b on https://host, /a on https://host (the parent of the first),
\*   /content/old/c/d on https://other (no jcr:content node).
Sources ==
    { [path |-> <<"/", "a", "/", "b">>, url |-> Https("host") \o <<"/", "a", "/", "b">>,
       content |-> TRUE, props |-> <<"jcr:primaryType", "jcr:title">>,
       children |-> <<"root">>],
      [path |-> <<"/", "a">>, url |-> Https("host") \o <<"/", "a">>,
       content |-> TRUE, props |-> <<"jcr:primaryType">>, children |-> <<>>],
      [path |-> <<"/", "content", "/", "old", "/", "c", "/", "d">>,
       url |-> Https("other") \o <<"/", "c", "/", "d">>,
       content |-> FALSE, props |-> <<>>, children |-> <<>>] }

\* The fileReference values: empty, absolute on https://host, site-absolute with
\* the same path, absolute on a third host with a query, DAM; and a
\* page-relative one, which only the path mapping on its own is given.
RefEmpty == <<>>

RefHost == Https("host") \o <<"/", "media", "/", "a", ".", "png">>

RefSite == <<"/", "media", "/", "a", ".", "png">>

RefCdn == Https("cdn") \o <<"/", "b", ".", "jpg", "?", "w", "=", "1">>

RefRelative == <<".", "/", "a", ".", "png">>

RefDam == <<"/", "content", "/", "dam", "/", "x", "/", "a", ".", "png">>

Refs == {RefEmpty, RefHost, RefSite, RefCdn, RefDam}

SeqsUpTo(S, n) == UNION {[1..k -> S] : k \in 0..n}

\* A page as callers pass it: { path, data, url }.
Page(source, refs) ==
    [path |-> source.path, url |-> source.url,
     data |-> [content |-> source.content, props |-> source.props,
               children |-> source.children, refs |-> refs]]

RECURSIVE TotalRefs(_)
TotalRefs(pgs) ==
    IF pgs = <<>> THEN 0 ELSE Len(pgs[1].data.refs) + TotalRefs(Tail(pgs))

RECURSIVE ListsUpTo(_, _)
\* The lists of at most n pages of P that hold at most MaxRefs references.
ListsUpTo(P, n) ==
    IF n = 0 THEN {<<>>}
    ELSE ListsUpTo(P, n - 1) \cup
         {Append(l, pg) : <<l, pg>> \in
            {x \in {y \in ListsUpTo(P, n - 1) : Len(y) = n - 1} \X P :
                TotalRefs(x[1]) + Len(x[2].data.refs) <= MaxRefs}}

\* The page lists a call can be given.
PageLists == ListsUpTo({Page(s, r) : s \in Sources, r \in SeqsUpTo(Refs, MaxRefs)}, MaxPages)

---------------------------------------------------------------------------
(* State                                                                   *)

VARIABLES
    pages,               \* the pages argument of the call in progress
    jcrPages,            \* the module's page cache (line 25)
    jcrAssets,           \* the module's asset cache (line 26)
    pc,                  \* where the call in progress stands
    stack,               \* the return points of the calls it is inside
    i,                   \* the loop index of createJcrPackage
    tasks,               \* the page callbacks Promise.all waits for
    emptyAncestorPages,  \* the local of createJcrPackage (line 451)
    zipPending,          \* the archive is generated but not yet saved
    calls,               \* the calls made so far
    log,                 \* history: fetches, transformations and writes, in order
    populated,           \* history: how often each cache was filled in this call
    error,               \* the exception the call in progress ended with
    probe                \* the last application of the path mapping (PathSpec only)

buildVars ==
    <<pages, jcrPages, jcrAssets, pc, stack, i, tasks, emptyAncestorPages,
      zipPending, calls, log, populated, error>>

vars == <<buildVars, probe>>

\* The cache holds an array or a promise (getJcrPages stores Promise.all's
\* promise, line 322; its callers store the awaited array).
Array(items) == [kind |-> "array", state |-> "none", items |-> items]

Promise(state, items) == [kind |-> "promise", state |-> state, items |-> items]

\* jcrPages.length === 0: a promise has no length.
IsEmptyArray(cache) == cache.kind = "array" /\ Len(cache.items) = 0

NoProbe == [kind |-> "none"]

BuildInit ==
    /\ pages = <<>>
    /\ jcrPages = Array(<<>>)
    /\ jcrAssets = <<>>
    /\ pc = "idle"
    /\ stack = <<>>
    /\ i = 0
    /\ tasks = <<>>
    /\ emptyAncestorPages = <<>>
    /\ zipPending = FALSE
    /\ calls = 0
    /\ log = <<>>
    /\ populated = [pages |-> 0, assets |-> 0]
    /\ error = "none"

Init == BuildInit /\ probe = NoProbe


---------------------------------------------------------------------------
(* History events                                                          *)

Fetched(url, outcome, by) == [op |-> "fetch", url |-> url, outcome |-> outcome, by |-> by]

Transformed(k) == [op |-> "transformed", page |-> k]

\* zip.file(path, content) followed by saveFile(dirHandle, `jcr/${path}`, content).
ZipAndSave(kind, path, content) ==
    << [op |-> "zip.file", kind |-> kind, path |-> path, content |-> content],
       [op |-> "saveFile", kind |-> kind, path |-> <<"jcr", "/">> \o path,
        content |-> content] >>

\* The call returns to the point on top of the stack.
ReturnTo == pc' = Head(stack) /\ stack' = Tail(stack)

---------------------------------------------------------------------------
(* createJcrPackage (lines 435-477)                                        *)

\* Lines 435-443: nothing happens for an empty page list; otherwise init()
\* empties both caches and getJcrPages is called.
StartCreateJcrPackage(lists, most) ==
    /\ pc = "idle"
    /\ calls < most
    /\ \E pgs \in lists :
        /\ pages' = pgs
        /\ IF Len(pgs) = 0
           THEN /\ pc' = "done"
                /\ UNCHANGED <<jcrPages, jcrAssets, stack>>
           ELSE /\ jcrPages' = Array(<<>>)
                /\ jcrAssets' = <<>>
                /\ pc' = "getJcrPages"
                /\ stack' = <<"addPages">>
    /\ calls' = calls + 1
    /\ UNCHANGED <<i, tasks, emptyAncestorPages, zipPending, log, populated, error, probe>>

\* createJcrPackage is called with one of the page lists of a build.
CreateJcrPackage == StartCreateJcrPackage(PageLists, MaxCalls)

\* getJcrPages up to its return (lines 321-333): an empty array is replaced by
\* the promise of Promise.all over one callback per page; anything else is
\* returned as it is.  The caller then awaits what was returned.
GetJcrPages ==
    /\ pc = "getJcrPages"
    /\ IF IsEmptyArray(jcrPages)
       THEN /\ jcrPages' = Promise("pending", <<>>)
            /\ tasks' = [k \in 1..Len(pages) |->
                            [next |-> 1, nodes |-> <<>>, status |-> "running",
                             error |-> "none"]]
            /\ populated' = [populated EXCEPT !.pages = @ + 1]
       ELSE UNCHANGED <<jcrPages, tasks, populated>>
    /\ pc' = "awaitPages"
    /\ UNCHANGED <<pages, jcrAssets, stack, i, emptyAncestorPages, zipPending, calls,
                   log, error, probe>>

AnyRejected == \E k \in 1..Len(tasks) : tasks[k].status = "rejected"

AllDone == \A k \in 1..Len(tasks) : tasks[k].status = "done"

\* One iteration of the loop of getProcessedJcr in the callback of page k.
TransformImage(k) ==
    /\ pc = "awaitPages"
    /\ jcrPages.kind = "promise" /\ jcrPages.state = "pending"
    /\ ~AnyRejected
    /\ tasks[k].status = "running"
    /\ tasks[k].next <= Len(pages[k].data.refs)
    /\ \E outcome \in FetchOutcomes :
        LET ref == pages[k].data.refs[tasks[k].next]
            r == ProcessImage(ref, pages[k].url, ProjectUrl, outcome)
        IN  /\ tasks' = [tasks EXCEPT ![k] =
                    IF r.raised
                    THEN [@ EXCEPT !.status = "rejected", !.error = r.error]
                    ELSE [@ EXCEPT !.next = @ + 1, !.nodes = Append(@, r.node)]]
            /\ log' = IF r.fetches
                      THEN Append(log, Fetched(Href(ParseUrl(ref)), outcome, "page"))
                      ELSE log
    /\ UNCHANGED <<pages, jcrPages, jcrAssets, pc, stack, i, emptyAncestorPages,
                   zipPending, calls, populated, error, probe>>

\* The callback of page k returns its page object: every node is processed.
TransformDone(k) ==
    /\ pc = "awaitPages"
    /\ jcrPages.kind = "promise" /\ jcrPages.state = "pending"
    /\ ~AnyRejected
    /\ tasks[k].status = "running"
    /\ tasks[k].next > Len(pages[k].data.refs)
    /\ tasks' = [tasks EXCEPT ![k].status = "done"]
    /\ log' = Append(log, Transformed(k))
    /\ UNCHANGED <<pages, jcrPages, jcrAssets, pc, stack, i, emptyAncestorPages,
                   zipPending, calls, populated, error, probe>>

\* What the pending promise of Promise.all resolves to.
TaskResults ==
    [k \in 1..Len(tasks) |->
        JcrPage(pages[k], ProcessedXml(pages[k].data, tasks[k].nodes), ProjectUrl)]

\* Whether the value the caller awaits is available: an array, or a promise
\* every callback of which has returned.
CanResume ==
    \/ jcrPages.kind = "array"
    \/ jcrPages.kind = "promise" /\ jcrPages.state = "fulfilled"
    \/ jcrPages.kind = "promise" /\ jcrPages.state = "pending" /\ AllDone

\* What awaiting the value getJcrPages returned gives: the array itself, the
\* value of an already fulfilled promise, or the results of the callbacks.
Awaited ==
    IF jcrPages.kind = "array" \/ jcrPages.state = "fulfilled"
    THEN jcrPages.items
    ELSE TaskResults

\* `jcrPages = await getJcrPages(pages, projectUrl)` resumes (lines 338, 359,
\* 403, 443): the cache holds the array.
PagesFulfilled ==
    /\ pc = "awaitPages"
    /\ Head(stack) # "caller"
    /\ CanResume
    /\ jcrPages' = Array(Awaited)
    /\ ReturnTo
    /\ i' = 1
    /\ UNCHANGED <<pages, jcrAssets, tasks, emptyAncestorPages, zipPending, calls, log,
                   populated, error, probe>>

\* The await throws: a callback has thrown, Promise.all's promise is rejected
\* and stays in the cache; createJcrPackage ends with that exception.
PagesRejected ==
    /\ pc = "awaitPages"
    /\ jcrPages.kind = "promise"
    /\ AnyRejected
    /\ jcrPages' = Promise("rejected", <<>>)
    /\ error' = tasks[CHOOSE k \in 1..Len(tasks) : tasks[k].status = "rejected"].error
    /\ pc' = "failed"
    /\ UNCHANGED <<pages, jcrAssets, stack, i, tasks, emptyAncestorPages, zipPending,
                   calls, log, populated, probe>>

\* addPage for jcrPages[i] (lines 444-448).
AddPage ==
    /\ pc = "addPages"
    /\ i <= Len(jcrPages.items)
    /\ log' = log \o ZipAndSave("page", jcrPages.items[i].contentXmlPath,
                                jcrPages.items[i].processedXml)
    /\ i' = i + 1
    /\ UNCHANGED <<pages, jcrPages, jcrAssets, pc, stack, tasks, emptyAncestorPages,
                   zipPending, calls, populated, error, probe>>

\* Line 451: the pages are written, the ancestors are computed.
AddPagesDone ==
    /\ pc = "addPages"
    /\ i > Len(jcrPages.items)
    /\ emptyAncestorPages' = getEmptyAncestorPages(jcrPages.items)
    /\ pc' = "addAncestors"
    /\ i' = 1
    /\ UNCHANGED <<pages, jcrPages, jcrAssets, stack, tasks, zipPending, calls, log,
                   populated, error, probe>>

\* addPage for emptyAncestorPages[i] (lines 452-456).
AddAncestor ==
    /\ pc = "addAncestors"
    /\ i <= Len(emptyAncestorPages)
    /\ log' = log \o ZipAndSave("ancestor", emptyAncestorPages[i].contentXmlPath,
                                emptyAncestorPages[i].processedXml)
    /\ i' = i + 1
    /\ UNCHANGED <<pages, jcrPages, jcrAssets, pc, stack, tasks, emptyAncestorPages,
                   zipPending, calls, populated, error, probe>>

\* Line 459: the ancestors are written, getJcrAssets is called.
AddAncestorsDone ==
    /\ pc = "addAncestors"
    /\ i > Len(emptyAncestorPages)
    /\ pc' = "getJcrAssets"
    /\ stack' = <<"addAssets">> \o stack
    /\ UNCHANGED <<pages, jcrPages, jcrAssets, i, tasks, emptyAncestorPages, zipPending,
                   calls, log, populated, error, probe>>

\* getJcrAssets up to its first await (lines 337-338): an empty collection is
\* filled, which starts with a call of getJcrPages; a non-empty one is returned.
GetJcrAssets ==
    /\ pc = "getJcrAssets"
    /\ IF Len(jcrAssets) = 0
       THEN /\ populated' = [populated EXCEPT !.assets = @ + 1]
            /\ pc' = "getJcrPages"
            /\ stack' = <<"scanAssets">> \o stack
            /\ UNCHANGED i
       ELSE /\ ReturnTo
            /\ i' = 1
            /\ UNCHANGED populated
    /\ UNCHANGED <<pages, jcrPages, jcrAssets, tasks, emptyAncestorPages, zipPending,
                   calls, log, error, probe>>

\* The loops of getJcrAssets (lines 339-353) and its return.
ScanAssets ==
    /\ pc = "scanAssets"
    /\ jcrAssets' = ScanPages(jcrAssets, jcrPages.items, ProjectUrl)
    /\ ReturnTo
    /\ i' = 1
    /\ UNCHANGED <<pages, jcrPages, tasks, emptyAncestorPages, zipPending, calls, log,
                   populated, error, probe>>

\* addAsset with a plausible slip: fetchAssetData is not awaited, the writes
\* come first.
addAssetFirst_NoAwait == "writeAsset"

\* The first thing addAsset does (line 215): await fetchAssetData(asset).
addAssetFirst == "fetchAssetData"

\* Line 460-463: addAsset is called for jcrAssets[i].
AddAsset ==
    /\ pc = "addAssets"
    /\ i <= Len(jcrAssets)
    /\ pc' = addAssetFirst
    /\ UNCHANGED <<pages, jcrPages, jcrAssets, stack, i, tasks, emptyAncestorPages,
                   zipPending, calls, log, populated, error, probe>>

\* fetchAssetData(jcrAssets[i]) in addAsset (line 215) settles.
FetchAsset ==
    /\ pc = "fetchAssetData"
    /\ \E outcome \in FetchOutcomes :
        LET r == fetchAssetData(jcrAssets[i], outcome)
        IN  /\ log' = Append(log, Fetched(Href(jcrAssets[i].url), outcome, "asset"))
            /\ IF r.raised
               THEN /\ pc' = "failed"
                    /\ error' = "TypeError: fetch result is undefined"
                    /\ UNCHANGED jcrAssets
               ELSE /\ pc' = "writeAsset"
                    /\ jcrAssets' = [jcrAssets EXCEPT ![i] = r.asset]
                    /\ UNCHANGED error
    /\ UNCHANGED <<pages, jcrPages, stack, i, tasks, emptyAncestorPages, zipPending,
                   calls, populated, probe>>

AssetXmlPath(jcrPath) == <<"jcr_root">> \o jcrPath \o <<"/", ".content.xml">>

AssetOriginalPath(jcrPath) ==
    <<"jcr_root">> \o jcrPath \o <<"/", "_jcr_content", "/", "renditions", "/", "original">>

\* The writes of addAsset (lines 217-228): the descriptor with the mime type,
\* then the bytes.
WriteAsset ==
    /\ pc = "writeAsset"
    /\ log' = log
            \o ZipAndSave("asset", AssetXmlPath(jcrAssets[i].jcrPath),
                          [mimeType |-> jcrAssets[i].mimeType])
            \o ZipAndSave("original", AssetOriginalPath(jcrAssets[i].jcrPath),
                          [blob |-> jcrAssets[i].blob])
    /\ i' = i + 1
    /\ pc' = "addAssets"
    /\ UNCHANGED <<pages, jcrPages, jcrAssets, stack, tasks, emptyAncestorPages,
                   zipPending, calls, populated, error, probe>>

\* Line 467 and 403: the assets are written; addFilterXml calls getFilterXml,
\* which calls getJcrPages.
AddAssetsDone ==
    /\ pc = "addAssets"
    /\ i > Len(jcrAssets)
    /\ pc' = "getJcrPages"
    /\ stack' = <<"getJcrAssetPaths">> \o stack
    /\ UNCHANGED <<pages, jcrPages, jcrAssets, i, tasks, emptyAncestorPages, zipPending,
                   calls, log, populated, error, probe>>

\* Line 411 and 368: getFilterXml calls getJcrAssetPaths, which calls
\* getJcrAssets.
GetJcrAssetPaths ==
    /\ pc = "getJcrAssetPaths"
    /\ pc' = "getJcrAssets"
    /\ stack' = <<"addFilterXml">> \o stack
    /\ UNCHANGED <<pages, jcrPages, jcrAssets, i, tasks, emptyAncestorPages, zipPending,
                   calls, log, populated, error, probe>>

FilterXmlPath == <<"META-INF", "/", "vault", "/", "filter", ".", "xml">>

PropXmlPath == <<"META-INF", "/", "vault", "/", "properties", ".", "xml">>

\* getFilterXml builds the document from the caches and addFilterXml writes
\* it (lines 405-426).
AddFilterXml ==
    /\ pc = "addFilterXml"
    /\ log' = log \o ZipAndSave("filter", FilterXmlPath,
                        [filters |-> FilterXml(jcrPages.items,
                                               getResourcePaths(jcrAssets, TRUE))])
    /\ pc' = "addPropertiesXml"
    /\ UNCHANGED <<pages, jcrPages, jcrAssets, stack, i, tasks, emptyAncestorPages,
                   zipPending, calls, populated, error, probe>>

\* addPropertiesXml (lines 429-433).
AddPropertiesXml ==
    /\ pc = "addPropertiesXml"
    /\ log' = log \o ZipAndSave("properties", PropXmlPath,
                        [name |-> getPackageName(pages, ProjectUrl)])
    /\ pc' = "generateAsync"
    /\ UNCHANGED <<pages, jcrPages, jcrAssets, stack, i, tasks, emptyAncestorPages,
                   zipPending, calls, populated, error, probe>>

\* Line 473: zip.generateAsync is started and not awaited; createJcrPackage
\* returns.
GenerateAsync ==
    /\ pc = "generateAsync"
    /\ zipPending' = TRUE
    /\ pc' = "done"
    /\ UNCHANGED <<pages, jcrPages, jcrAssets, stack, i, tasks, emptyAncestorPages,
                   calls, log, populated, error, probe>>

\* Lines 474-476: the generated blob is saved.
SaveZip ==
    /\ zipPending
    /\ log' = Append(log, [op |-> "saveFile", kind |-> "zip",
                           path |-> <<"jcr", "/">> \o getPackageName(pages, ProjectUrl)
                                        \o <<".", "zip">>,
                           content |-> [blob |-> "zip"]])
    /\ zipPending' = FALSE
    /\ UNCHANGED <<pages, jcrPages, jcrAssets, pc, stack, i, tasks, emptyAncestorPages,
                   calls, populated, error, probe>>

\* The caller has the call's result (or its exception) and all its writes,
\* the save of the archive included: that save works on the call's own zip
\* object and package name and shares nothing with a later call.  Callers
\* make their calls one after the other.  Only the module's caches outlive a
\* call.
Return ==
    /\ pc \in {"done", "failed"}
    /\ ~zipPending
    /\ pc' = "idle"
    /\ pages' = <<>>
    /\ stack' = <<>>
    /\ i' = 0
    /\ tasks' = <<>>
    /\ emptyAncestorPages' = <<>>
    /\ log' = <<>>
    /\ populated' = [pages |-> 0, assets |-> 0]
    /\ error' = "none"
    /\ UNCHANGED <<jcrPages, jcrAssets, zipPending, calls, probe>>

Next ==
    \/ CreateJcrPackage
    \/ GetJcrPages
    \/ \E k \in 1..Len(tasks) : TransformImage(k)
    \/ \E k \in 1..Len(tasks) : TransformDone(k)
    \/ PagesFulfilled
    \/ PagesRejected
    \/ AddPage
    \/ AddPagesDone
    \/ AddAncestor
    \/ AddAncestorsDone
    \/ GetJcrAssets
    \/ ScanAssets
    \/ AddAsset
    \/ FetchAsset
    \/ WriteAsset
    \/ AddAssetsDone
    \/ GetJcrAssetPaths
    \/ AddFilterXml
    \/ AddPropertiesXml
    \/ GenerateAsync
    \/ SaveZip
    \/ Return

Spec == Init /\ [][Next]_vars

---------------------------------------------------------------------------
(* The exported functions called on their own (lines 320-372): callers     *)
(* call getJcrPages, getJcrAssets and getJcrPaths between builds.  None    *)
(* of them calls init().                                                   *)

\* The most calls of one behaviour of CacheSpec.
MaxCacheCalls == 3

\* The page lists of these calls: no page or one page, with no reference or
\* one that resolves to an included asset, so that no page callback throws.
CacheRefs == {RefSite, RefDam}

CachePageLists ==
    {<<>>} \cup {<<Page(source, refs)>> : source \in Sources, refs \in SeqsUpTo(CacheRefs, 1)}

\* A caller calls the exported function that starts at `entry`; `then` is
\* where that function goes on when the first call it makes has returned.
StartCall(entry, then) ==
    /\ pc = "idle"
    /\ calls < MaxCacheCalls
    /\ \E pgs \in CachePageLists : pages' = pgs
    /\ pc' = entry
    /\ stack' = <<then>>
    /\ calls' = calls + 1
    /\ UNCHANGED <<jcrPages, jcrAssets, i, tasks, emptyAncestorPages, zipPending, log,
                   populated, error, probe>>

\* getJcrPages(pages, projectUrl) is called from outside the module.
CallGetJcrPages == StartCall("getJcrPages", "caller")

\* getJcrAssets(pages, projectUrl) is called from outside the module.
CallGetJcrAssets == StartCall("getJcrAssets", "caller")

\* getJcrPaths(pages, projectUrl) is called (line 359: its first await is
\* that of getJcrPages).
CallGetJcrPaths == StartCall("getJcrPages", "getJcrPaths")

\* createJcrPackage is called between such calls.
CallCreateJcrPackage == StartCreateJcrPackage(CachePageLists, MaxCacheCalls)

\* An outside caller's await of getJcrPages(...) resumes: nothing assigns the
\* cache, which keeps the promise getJcrPages stored (line 322), now
\* fulfilled.
PagesAwaited ==
    /\ pc = "awaitPages"
    /\ Head(stack) = "caller"
    /\ CanResume
    /\ jcrPages' = IF jcrPages.kind = "array" THEN jcrPages
                   ELSE Promise("fulfilled", Awaited)
    /\ log' = Append(log, [op |-> "return", fn |-> "getJcrPages", value |-> Awaited])
    /\ pc' = "done"
    /\ stack' = <<>>
    /\ UNCHANGED <<pages, jcrAssets, i, tasks, emptyAncestorPages, zipPending, calls,
                   populated, error, probe>>

\* An outside caller's await of getJcrAssets(...) resumes with the collection.
AssetsAwaited ==
    /\ pc = "caller"
    /\ log' = Append(log, [op |-> "return", fn |-> "getJcrAssets", value |-> jcrAssets])
    /\ pc' = "done"
    /\ UNCHANGED <<pages, jcrPages, jcrAssets, stack, i, tasks, emptyAncestorPages,
                   zipPending, calls, populated, error, probe>>

\* Line 360 of getJcrPaths: getJcrAssets is called.
GetJcrPathsAssets ==
    /\ pc = "getJcrPaths"
    /\ pc' = "getJcrAssets"
    /\ stack' = <<"getJcrPathsReturn">> \o stack
    /\ UNCHANGED <<pages, jcrPages, jcrAssets, i, tasks, emptyAncestorPages, zipPending,
                   calls, log, populated, error, probe>>

\* Lines 361-364 of getJcrPaths: the paths of the cached pages, then those of
\* the cached assets, are returned.
GetJcrPathsReturn ==
    /\ pc = "getJcrPathsReturn"
    /\ log' = Append(log, [op |-> "return", fn |-> "getJcrPaths",
                           value |-> getResourcePaths(jcrPages.items, FALSE)
                                        \o getResourcePaths(jcrAssets, TRUE)])
    /\ pc' = "done"
    /\ UNCHANGED <<pages, jcrPages, jcrAssets, stack, i, tasks, emptyAncestorPages,
                   zipPending, calls, populated, error, probe>>

\* The steps of the functions; no page callback throws for these page lists, so
\* the await of getJcrPages never does.
CacheNext ==
    \/ CallGetJcrPages
    \/ CallGetJcrAssets
    \/ CallGetJcrPaths
    \/ CallCreateJcrPackage
    \/ GetJcrPages
    \/ \E k \in 1..Len(tasks) : TransformImage(k)
    \/ \E k \in 1..Len(tasks) : TransformDone(k)
    \/ PagesFulfilled
    \/ PagesAwaited
    \/ AssetsAwaited
    \/ GetJcrPathsAssets
    \/ GetJcrPathsReturn
    \/ AddPage
    \/ AddPagesDone
    \/ AddAncestor
    \/ AddAncestorsDone
    \/ GetJcrAssets
    \/ ScanAssets
    \/ AddAsset
    \/ FetchAsset
    \/ WriteAsset
    \/ AddAssetsDone
    \/ GetJcrAssetPaths
    \/ AddFilterXml
    \/ AddPropertiesXml
    \/ GenerateAsync
    \/ SaveZip
    \/ Return

CacheSpec == Init /\ [][CacheNext]_vars

---------------------------------------------------------------------------
(* The path mapping on its own: getJcrPagePath, getAsset and               *)
(* getJcrAssetPath applied to inputs no build of Spec holds.               *)

\* A second project, https://github.com/acme/blog/: the site name is "blog".
ProjectUrl2 ==
    <<"http", "s", ":", "/", "/", "github", ".", "com", "/", "acme", "/", "blog", "/">>

ProjectUrls == {ProjectUrl, ProjectUrl2}

\* Source page paths: plain, under /content/ with another site's token,
\* /content/ and /content themselves, the root, and one with an extension.
PagePaths ==
    { <<"/", "a", "/", "b">>, <<"/", "a">>, <<"/">>,
      <<"/", "content", "/", "old", "/", "c", "/", "d">>,
      <<"/", "content", "/", "old">>, <<"/", "content", "/">>, <<"/", "content">>,
      <<"/", "x", ".", "html">> }

\* Page URLs: two depths on one host, another host, a host without a path.
PageUrls ==
    { Https("host") \o <<"/", "a", "/", "b">>, Https("host") \o <<"/", "a">>,
      Https("other") \o <<"/", "c", "/", "d">>, Https("host") }

\* References beyond Refs: a DAM path of three segments, a DAM path on the
\* page's host with a query, paths without extension and with a "." in a
\* folder name, a relative reference with a query, and a bare word.
PathRefs ==
    Refs \cup
    { RefRelative,
      <<"/", "content", "/", "dam", "/", "a", ".", "png">>,
      Https("host") \o <<"/", "content", "/", "dam", "/", "x", "/", "b", ".", "jpg",
                         "?", "w", "=", "1">>,
      <<"/", "media", "/", "a">>,
      <<"/", "v1", ".", "2", "/", "a">>,
      <<".", "/", "a", ".", "png", "?", "w", "=", "1">>,
      <<"a", ".", "png">> }

\* The pathnames and queries of the URL pairs.
PairPathnames ==
    { <<"/", "media", "/", "a", ".", "png">>, <<"/", "media", "/", "a">>,
      <<"/", "content", "/", "dam", "/", "x", "/", "a", ".", "png">> }

Queries ==
    { <<>>, <<"w">>, <<"w", "=">>, <<"w", "=", "1">>, <<"w", "=", "2">>,
      <<"w", "=", "1", "&", "w", "=", "2">>, <<"w", "=", "1", "&", "w", "=", "3">>,
      <<"w", "=", "1", "&", "h", "=", "2">>, <<"h", "=", "2", "&", "w", "=", "1">>,
      <<"a", "b", "=", "c">>, <<"a", "=", "b", "c">> }

\* The URL https://host<pathname>?<query>.
UrlOf(pathname, query) ==
    Https("host") \o pathname \o (IF query = <<>> THEN <<>> ELSE <<"?">> \o query)

\* getJcrPagePath is applied to a page path.
MapPagePath ==
    /\ probe.kind = "none"
    /\ \E path \in PagePaths, projectUrl \in ProjectUrls :
        probe' = [kind |-> "page", path |-> path, projectUrl |-> projectUrl,
                  jcrPath |-> getJcrPagePath(path, projectUrl)]
    /\ UNCHANGED buildVars

\* getAsset is applied to a reference of a page.
ResolveAsset ==
    /\ probe.kind = "none"
    /\ \E fileReference \in PathRefs, pageUrl \in PageUrls, projectUrl \in ProjectUrls :
        probe' = [kind |-> "asset", fileReference |-> fileReference, pageUrl |-> pageUrl,
                  projectUrl |-> projectUrl,
                  asset |-> getAsset(fileReference, pageUrl, projectUrl)]
    /\ UNCHANGED buildVars

\* getJcrAssetPath is applied to two URLs of one host and path.
MapAssetPair ==
    /\ probe.kind = "none"
    /\ \E pathname \in PairPathnames, query1 \in Queries, query2 \in Queries :
        probe' = [kind |-> "pair", pathname |-> pathname,
                  query1 |-> query1, query2 |-> query2,
                  path1 |-> getJcrAssetPath(ParseUrl(UrlOf(pathname, query1)), ProjectUrl),
                  path2 |-> getJcrAssetPath(ParseUrl(UrlOf(pathname, query2)), ProjectUrl)]
    /\ UNCHANGED buildVars

\* The result is read and the next application can be made.
Forget ==
    /\ probe.kind # "none"
    /\ probe' = NoProbe
    /\ UNCHANGED buildVars

PathNext == MapPagePath \/ ResolveAsset \/ MapAssetPair \/ Forget

PathSpec == Init /\ [][PathNext]_vars

---------------------------------------------------------------------------
(* Properties of a build                                                   *)

\* A call with pages is in progress (or has ended and not yet returned).
InBuild == pc # "idle" /\ Len(pages) > 0

\* The references of page k, with the page's URL.
RefsOf(k) == {pages[k].data.refs[n] : n \in 1..Len(pages[k].data.refs)}

\* The canonical paths of the pages of the call.
ExpectedPagePaths == {getJcrPagePath(pages[k].path, ProjectUrl) : k \in 1..Len(pages)}

\* The jcr:content node of every page of the call and every child node of it.
ExpectedContentRoots ==
    UNION {{JcrContent(getJcrPagePath(pages[k].path, ProjectUrl))} \cup
           {JcrContent(getJcrPagePath(pages[k].path, ProjectUrl))
                \o <<"/", getPageContentChildren(pages[k].data)[c]>> :
                c \in 1..Len(getPageContentChildren(pages[k].data))} :
           k \in 1..Len(pages)}

\* Whether a reference of a page with that URL yields an included asset.
Included(ref, pageUrl) ==
    /\ RefKind(ref) # "empty"
    /\ getAsset(ref, pageUrl, ProjectUrl).add
    /\ getAsset(ref, pageUrl, ProjectUrl).jcrPath # Undefined

\* The canonical paths of the included assets of the call.
IncludedAssetPaths ==
    UNION {{getAsset(ref, pages[k].url, ProjectUrl).jcrPath :
                ref \in {r \in RefsOf(k) : Included(r, pages[k].url)}} :
           k \in 1..Len(pages)}

\* The positions of the history that are writes of that kind; a write is
\* issued to the archive (zip.file) and to the file system (saveFile).
IsWrite(k, kinds) == log[k].op \in {"zip.file", "saveFile"} /\ log[k].kind \in kinds

FilterWrites == {k \in 1..Len(log) : IsWrite(k, {"filter"})}

\* The archive path of a write (saveFile prefixes "jcr/").
EntryPath(e) == IF e.op = "saveFile" THEN SubSeq(e.path, 3, Len(e.path)) ELSE e.path

\* The root= targets of a filter document.
Roots(filters) == {filters[k].root : k \in 1..Len(filters)}

\* C1 (as amended): in every build, the root= targets of the filter document
\* getFilterXml produces are exactly the jcr:content node of every resolved
\* page, every child node of it, and the jcrPath of every included asset.
C1_FilterRoots ==
    \A k \in FilterWrites :
        Roots(log[k].content.filters) = ExpectedContentRoots \cup IncludedAssetPaths

\* C1, the case: the filter of a build of two pages with an included asset
\* has been written.
C1_Witness ==
    /\ FilterWrites # {}
    /\ Len(pages) = 2
    /\ IncludedAssetPaths # {}

\* C1 as stated: the root= targets are exactly the jcrPaths of the resolved
\* pages and of the included assets.
C1_RootsArePagePaths ==
    \A k \in FilterWrites :
        Roots(log[k].content.filters) = ExpectedPagePaths \cup IncludedAssetPaths

\* The positions of the "/" of a path.
Slashes(path) == {k \in 1..Len(path) : path[k] = "/"}

\* The ancestor paths of a canonical page path between /content/<site> and
\* the page's parent: the texts before its third and later "/".
AncestorPaths(path) ==
    {SubSeq(path, 1, k - 1) :
        k \in {q \in Slashes(path) : Cardinality({r \in Slashes(path) : r < q}) >= 2}}

\* How many emitted scaffold nodes have that path.
Emitted(path) ==
    Cardinality({k \in 1..Len(emptyAncestorPages) : emptyAncestorPages[k].jcrPath = path})

\* C2 as stated: once getEmptyAncestorPages has run, every ancestor path of a
\* resolved page is either a resolved page path and not emitted, or emitted
\* exactly once.
C2_AncestorsExactlyOnce ==
    pc = "addAncestors" =>
        \A path \in UNION {AncestorPaths(p) : p \in ExpectedPagePaths} :
            Emitted(path) = IF path \in ExpectedPagePaths THEN 0 ELSE 1

\* C3 as stated: a build does not end with an exception because the byte
\* fetch of an asset failed.
C3_FetchFailureNonFatal ==
    pc = "failed" =>
        ~(/\ Len(log) > 0
          /\ log[Len(log)].op = "fetch"
          /\ log[Len(log)].by = "asset"
          /\ log[Len(log)].outcome \in {"status", "reject"})

\* C4 as stated: a build whose pages hold an empty fileReference does not
\* end with an exception.
C4_EmptyReferenceSkipped ==
    (\E k \in 1..Len(pages) : RefEmpty \in RefsOf(k)) => pc # "failed"

\* C5 as stated: within one build each collection is populated at most once,
\* the caches being empty when the build starts.
C5_PopulatedOnce ==
    /\ populated.pages <= 1
    /\ populated.assets <= 1
    /\ (pc = "getJcrPages" /\ stack = <<"addPages">>) =>
            IsEmptyArray(jcrPages) /\ jcrAssets = <<>>

\* C6: no two entries of the resolved-asset collection share a jcrPath.
C6_NoSharedJcrPath ==
    \A a, b \in 1..Len(jcrAssets) :
        a # b => jcrAssets[a].jcrPath # jcrAssets[b].jcrPath

\* C6, the case: a page holds the same asset written in two ways, and the
\* filled collection holds one entry.
C6_Witness ==
    /\ pc = "addAssets"
    /\ Len(jcrAssets) = 1
    /\ \E k \in 1..Len(pages) :
        /\ pages[k].data.refs = <<RefHost, RefSite>>
        /\ ParseUrl(pages[k].url).origin = Https("host")

\* Whether an absolute reference of a page with that URL is cross-origin.
CrossOrigin(ref, pageUrl) ==
    RefKind(ref) = "external" /\ ParseUrl(ref).origin # ParseUrl(pageUrl).origin

\* The page-side events of the history: mime-type fetches and completed
\* transformations.
IsPageResolution(k) ==
    \/ log[k].op = "transformed"
    \/ log[k].op = "fetch" /\ log[k].by = "page"

\* C9: every write of a page's document comes after the completed
\* transformation of that page and after every page-side fetch, and every
\* write of an asset's descriptor or bytes comes after a settled byte fetch
\* of that asset.
C9_WriteAfterResolve ==
    \A j \in 1..Len(log) :
        /\ IsWrite(j, {"page"}) =>
            /\ \E k \in 1..Len(pages) :
                /\ EntryPath(log[j]) =
                        ContentXmlPath(getJcrPagePath(pages[k].path, ProjectUrl))
                /\ \E t \in 1..(j - 1) : log[t] = Transformed(k)
            /\ \A t \in (j + 1)..Len(log) : ~IsPageResolution(t)
        /\ IsWrite(j, {"asset", "original"}) =>
            \E m \in 1..Len(jcrAssets) :
                /\ EntryPath(log[j]) \in {AssetXmlPath(jcrAssets[m].jcrPath),
                                          AssetOriginalPath(jcrAssets[m].jcrPath)}
                /\ \E t \in 1..(j - 1) :
                    /\ log[t].op = "fetch"
                    /\ log[t].by = "asset"
                    /\ log[t].url = Href(jcrAssets[m].url)
                    /\ log[t].outcome # "reject"

\* C9, the case: a build that fetched a mime type while transforming a page
\* has written that page and the bytes of an asset.
C9_Witness ==
    /\ pc = "done"
    /\ \E t \in 1..Len(log) : log[t].op = "fetch" /\ log[t].by = "page"
    /\ \E j \in 1..Len(log) : IsWrite(j, {"page"})
    /\ \E j \in 1..Len(log) : IsWrite(j, {"original"})

\* The jcrPaths of the entries of the asset collection.
EntryPaths == {jcrAssets[m].jcrPath : m \in 1..Len(jcrAssets)}

\* C10: in a build, a cross-origin absolute reference of a page gets no
\* jcrPath and add = false and stays as written in the processed markup; every
\* entry of the asset collection stems from a reference that is not
\* cross-origin on its page, and every asset filter root and asset archive
\* entry is the path of such an entry; an absolute reference with the page's
\* origin is resolved to its canonical path with add = true.
C10_CrossOriginLeftAlone ==
    InBuild =>
        /\ \A k \in 1..Len(pages) : \A n \in 1..Len(pages[k].data.refs) :
            LET ref == pages[k].data.refs[n]
                asset == getAsset(ref, pages[k].url, ProjectUrl)
            IN  /\ CrossOrigin(ref, pages[k].url) =>
                    /\ asset.jcrPath = Undefined
                    /\ ~asset.add
                    /\ (k <= Len(tasks) /\ n <= Len(tasks[k].nodes)) =>
                            tasks[k].nodes[n].fileReference = ref
                /\ (RefKind(ref) = "external" /\ ~CrossOrigin(ref, pages[k].url)) =>
                    /\ asset.add
                    /\ asset.jcrPath = getJcrAssetPath(ParseUrl(ref), ProjectUrl)
                    /\ StartsWith(asset.jcrPath, DamPrefix)
        /\ \A m \in 1..Len(jcrAssets) :
            \E k \in 1..Len(pages) :
                /\ jcrAssets[m].fileReference \in RefsOf(k)
                /\ ~CrossOrigin(jcrAssets[m].fileReference, pages[k].url)
        /\ \A j \in 1..Len(log) :
            /\ IsWrite(j, {"asset"}) =>
                    EntryPath(log[j]) \in {AssetXmlPath(path) : path \in EntryPaths}
            /\ IsWrite(j, {"original"}) =>
                    EntryPath(log[j]) \in {AssetOriginalPath(path) : path \in EntryPaths}
            /\ IsWrite(j, {"filter"}) =>
                    Roots(log[j].content.filters) \subseteq ExpectedContentRoots \cup EntryPaths

\* C10, the case: a finished build of a page that holds a cross-origin
\* reference, left as written, and a reference of its own origin, whose asset
\* is in the collection.
C10_Witness ==
    /\ pc = "done"
    /\ FilterWrites # {}
    /\ \E k \in 1..Len(pages) :
        /\ pages[k].data.refs = <<RefCdn, RefHost>>
        /\ ~CrossOrigin(RefHost, pages[k].url)
        /\ jcrPages.items[k].processedXml.nodes[1].fileReference = RefCdn
    /\ Len(jcrAssets) = 1
    /\ jcrAssets[1].fileReference = RefHost

---------------------------------------------------------------------------
(* Properties of the path mapping                                          *)

\* The site name of each project URL.
ExpectedSite(projectUrl) == IF projectUrl = ProjectUrl THEN <<"repo">> ELSE <<"blog">>

\* C7: getJcrPagePath returns a path that starts with /content/<siteName>,
\* and the jcrPath of every asset getAsset resolves starts with
\* /content/dam/<siteName>.
C7_NamespaceContainment ==
    /\ probe.kind = "page" =>
            StartsWith(probe.jcrPath, ContentPrefix \o ExpectedSite(probe.projectUrl))
    /\ (probe.kind = "asset" /\ RefKind(probe.fileReference) # "empty") =>
            (probe.asset.jcrPath # Undefined =>
                StartsWith(probe.asset.jcrPath, DamPrefix \o ExpectedSite(probe.projectUrl)))

\* C7, the case: a page path under /content/ with another site's token has
\* been mapped into the project's site.
C7_Witness ==
    /\ probe.kind = "page"
    /\ probe.path = <<"/", "content", "/", "old", "/", "c", "/", "d">>
    /\ probe.jcrPath = <<"/", "content", "/", "repo", "/", "c", "/", "d">>

\* A query that is one parameter, name=value with a value.
SingleParam(query) ==
    /\ Len(query) = 3
    /\ query[2] = "="
    /\ query[1] \notin {"=", "&"}
    /\ query[3] \notin {"=", "&"}

\* C8 (as amended): for two URLs of one host and path, under /content/dam/
\* the query is ignored and both map to one path; elsewhere they map to
\* distinct paths exactly when the `_<key><first value of key>` texts their
\* queries fold to differ, as they do for two queries that are one parameter
\* of the same name with different values.
C8_QueryFolding ==
    probe.kind = "pair" =>
        IF StartsWith(probe.pathname, DamPrefix)
        THEN probe.path1 = probe.path2
        ELSE /\ (probe.path1 # probe.path2) <=>
                    (QuerySuffix(probe.query1) # QuerySuffix(probe.query2))
             /\ (/\ SingleParam(probe.query1) /\ SingleParam(probe.query2)
                 /\ probe.query1[1] = probe.query2[1]
                 /\ probe.query1[3] # probe.query2[3]) => probe.path1 # probe.path2

\* C8, the case: two URLs outside /content/dam/ with w=1 and w=2 have been
\* mapped to different paths.
C8_Witness ==
    /\ probe.kind = "pair"
    /\ ~StartsWith(probe.pathname, DamPrefix)
    /\ probe.query1 = <<"w", "=", "1">>
    /\ probe.query2 = <<"w", "=", "2">>
    /\ probe.path1 # probe.path2

\* C8 as stated: two URLs of one host and path with different queries are
\* mapped to distinct paths.
C8_DistinctQueriesDistinctPaths ==
    (probe.kind = "pair" /\ probe.query1 # probe.query2) => probe.path1 # probe.path2

---------------------------------------------------------------------------
(* Properties of the functions called on their own                         *)

\* C11 as stated: whatever calls came before, the list getJcrPaths returns
\* holds exactly the canonical paths of the pages of that call and of their
\* included assets, and so no path of the pages of an earlier call.
C11_PathsOfThisCall ==
    \A j \in 1..Len(log) :
        (log[j].op = "return" /\ log[j].fn = "getJcrPaths") =>
            {log[j].value[k] : k \in 1..Len(log[j].value)}
                = ExpectedPagePaths \cup IncludedAssetPaths

====
